---- MODULE Spec2Model ----
(***************************************************************************)
(* A model of the magic-rs database loader: load_db_impl (loader.rs),      *)
(* Magic::from_bytes and its field decoders (magic.rs), Value::new and     *)
(* ValueType::try_from (value.rs) and the little-endian reads (traits.rs). *)
(*                                                                         *)
(* Bytes are naturals in 0..255 and a buffer is a sequence of bytes.  A    *)
(* u32 is kept as two 16-bit limbs [lo, hi] so that additions wrap at the  *)
(* width the program uses.                                                 *)
(***************************************************************************)
EXTENDS Integers, Sequences, FiniteSets, TLC

VARIABLES host, bytes, pc, num_records, left_num_records, right_num_records,
          records, result, v_in, v_out, t_in, t_out, m_in, m_out,
          o_in, o_out, s_in, s_out

vars == <<host, bytes, pc, num_records, left_num_records, right_num_records,
          records, result, v_in, v_out, t_in, t_out, m_in, m_out,
          o_in, o_out, s_in, s_out>>

caller_vars == <<v_in, v_out, t_in, t_out, m_in, m_out,
                 o_in, o_out, s_in, s_out>>

loader_vars == <<host, bytes, pc, num_records, left_num_records,
                 right_num_records, records, result>>

(***************************************************************************)
(* Bounds of the model.                                                    *)
(***************************************************************************)
\* the largest number of 432-byte slices (header slice included) in a buffer
MaxRecords == 4

(***************************************************************************)
(* Program constants.                                                      *)
(***************************************************************************)
MAGIC_SIZE == 432
MAGIC_SETS == 2
\* 0xF11E041C as limbs: hi = 0xF11E, lo = 0x041C
MAGIC_CONSTANT == [lo |-> 1052, hi |-> 61726]
\* 19
MAGIC_DATABASE_VERSION == [lo |-> 19, hi |-> 0]
\* the value window Magic::from_bytes hands to Value::new is bytes[32..160]
VALUE_WINDOW == 128

\* 2^16, the radix of the limbs
Limb == 256 * 256

(***************************************************************************)
(* Fixed-width integers.                                                   *)
(***************************************************************************)
Zeros(n) == [i \in 1..n |-> 0]

\* u16::read_le
u16_read_le(b) == b[1] + 256 * b[2]

\* u32::read_le: from_le_bytes of the first four bytes
u32_read_le(b) == [lo |-> b[1] + 256 * b[2], hi |-> b[3] + 256 * b[4]]

\* i32::read_le: two's complement of the first four bytes
i32_read_le(b) ==
    b[1] + 256 * b[2] + 65536 * b[3]
      + 16777216 * (IF b[4] >= 128 THEN b[4] - 256 ELSE b[4])

\* u64::read_le, as the pair of its low and high 32-bit halves
u64_read_le(b) == [lo32 |-> u32_read_le(SubSeq(b, 1, 4)),
                   hi32 |-> u32_read_le(SubSeq(b, 5, 8))]

\* the four little-endian bytes of a u32
u32_to_le_bytes(x) ==
    <<x.lo % 256, x.lo \div 256, x.hi % 256, x.hi \div 256>>

\* u32::swap_bytes
u32_swap_bytes(x) ==
    [lo |-> (x.hi \div 256) + 256 * (x.hi % 256),
     hi |-> (x.lo \div 256) + 256 * (x.lo % 256)]

\* u32::from_be: a byte swap on a little-endian host, the identity on a
\* big-endian host
u32_from_be(h, x) == IF h = "le" THEN u32_swap_bytes(x) ELSE x

\* u32 + u32 at 32 bits: the wrapped sum and whether it overflowed
u32_add(x, y) ==
    LET l == x.lo + y.lo
        h == x.hi + y.hi + (l \div Limb)
    IN  [val |-> [lo |-> l % Limb, hi |-> h % Limb], overflow |-> h >= Limb]

\* usize -> the limbs of the same number (for a usize below 2^32)
usize_limbs(n) == [lo |-> n % Limb, hi |-> n \div Limb]

\* (x as usize) == n, for a u32 x
u32_as_usize_eq(x, n) == x = usize_limbs(n)

\* (x as usize) > n, for a u32 x and a usize n below 2^16
u32_as_usize_gt(x, n) == x.hi > 0 \/ x.lo > n

(***************************************************************************)
(* Results.  A decoder returns Ok(val), Err(err) or panics.                *)
(***************************************************************************)
Ok(v) == [tag |-> "Ok", val |-> v]
Err(k, x, y) == [tag |-> "Err", err |-> [kind |-> k, a |-> x, b |-> y]]
Panic(why) == [tag |-> "Panic", why |-> why]

(***************************************************************************)
(* value.rs                                                                *)
(***************************************************************************)
\* enum ValueType, #[repr(u8)]: each variant with its discriminant, which
\* is what the cast `variant as u8` gives
ValueType ==
    [Invalid |-> 0, Byte |-> 1, Short |-> 2, Default |-> 3, Long |-> 4,
     String |-> 5, Date |-> 6, BeShort |-> 7, BeLong |-> 8, BeDate |-> 9,
     LeShort |-> 10, LeLong |-> 11, LeDate |-> 12, PString |-> 13,
     LDate |-> 14, BeLDate |-> 15, LeLDate |-> 16, Regex |-> 17,
     BeString16 |-> 18, LeString16 |-> 19, Search |-> 20, MeDate |-> 21,
     MeLDate |-> 22, MeLong |-> 23, Quad |-> 24, LeQuad |-> 25,
     BeQuad |-> 26, QDate |-> 27, LeQDate |-> 28, BeQDate |-> 29,
     QLDate |-> 30, LeQLDate |-> 31, BeQLDate |-> 32, Float |-> 33,
     BeFloat |-> 34, LeFloat |-> 35, Double |-> 36, BeDouble |-> 37,
     LeDouble |-> 38, BeId3 |-> 39, LeId3 |-> 40, Indirect |-> 41,
     QwDate |-> 42, LeQwDate |-> 43, BeQwDate |-> 44, Name |-> 45,
     Use |-> 46, Clear |-> 47, Der |-> 48, Guid |-> 49, Offset |-> 50,
     BeVarInt |-> 51, LeVarInt |-> 52, MSDosDate |-> 53,
     LeMSDosDate |-> 54, BeMsDosDate |-> 55, MSDosTime |-> 56,
     LeMSDOSTime |-> 57, BeMSDOSTime |-> 58, Octal |-> 59]

\* the arms of the match in ValueType::try_from, in order
ValueType_match ==
    <<<<0, "Invalid">>, <<1, "Byte">>, <<2, "Short">>, <<3, "Default">>,
      <<4, "Long">>, <<5, "String">>, <<6, "Date">>, <<7, "BeShort">>,
      <<8, "BeLong">>, <<9, "BeDate">>, <<10, "LeShort">>,
      <<11, "LeLong">>, <<12, "LeDate">>, <<13, "PString">>,
      <<14, "LDate">>, <<15, "BeLDate">>, <<16, "LeLDate">>,
      <<17, "Regex">>, <<18, "BeString16">>, <<19, "LeString16">>,
      <<20, "Search">>, <<21, "MeDate">>, <<22, "MeLDate">>,
      <<23, "MeLong">>, <<24, "Quad">>, <<25, "LeQuad">>, <<26, "BeQuad">>,
      <<27, "QDate">>, <<28, "LeQDate">>, <<29, "BeQDate">>,
      <<30, "QLDate">>, <<31, "LeQLDate">>, <<32, "BeQLDate">>,
      <<33, "Float">>, <<34, "BeFloat">>, <<35, "LeFloat">>,
      <<36, "Double">>, <<37, "BeDouble">>, <<38, "LeDouble">>,
      <<39, "BeId3">>, <<40, "LeId3">>, <<41, "Indirect">>,
      <<42, "QwDate">>, <<43, "LeQwDate">>, <<44, "BeQwDate">>,
      <<45, "Name">>, <<46, "Use">>, <<47, "Clear">>, <<48, "Der">>,
      <<49, "Guid">>, <<50, "Offset">>, <<51, "BeVarInt">>,
      <<52, "LeVarInt">>, <<53, "MSDosDate">>, <<54, "LeMSDosDate">>,
      <<55, "BeMsDosDate">>, <<56, "MSDosTime">>, <<57, "LeMSDOSTime">>,
      <<58, "BeMSDOSTime">>, <<59, "Octal">>>>

\* ValueType::try_from with the last arm (59 => Octal) missing
ValueType_try_from_short(value) ==
    LET hits == {i \in 1..(Len(ValueType_match) - 1) :
                   ValueType_match[i][1] = value}
    IN  IF hits # {}
        THEN Ok(ValueType_match[CHOOSE i \in hits : \A j \in hits : i <= j][2])
        ELSE Err("InvalidValueType", value, 0)

\* ValueType::try_from(value): the first arm that matches, else
\* InvalidValueType(other)
ValueType_try_from(value) ==
    LET hits == {i \in 1..Len(ValueType_match) : ValueType_match[i][1] = value}
    IN  IF hits # {}
        THEN Ok(ValueType_match[CHOOSE i \in hits : \A j \in hits : i <= j][2])
        ELSE Err("InvalidValueType", value, 0)

\* trim_step with the loop run while len > 0
trim_step_to_zero(b, st) ==
    IF st.done \/ ~(st.len > 0) THEN [len |-> st.len, done |-> TRUE]
    ELSE IF b[(st.len - 1) + 1] # 0 THEN [len |-> st.len, done |-> TRUE]
    ELSE [len |-> st.len - 1, done |-> FALSE]

\* one turn of the length-inference loop of Value::new on the loop state
\* [len, done]: `while len > 1 { if bytes[len - 1] != 0 { break; }
\* len -= 1; }`
trim_step(b, st) ==
    IF st.done \/ ~(st.len > 1) THEN [len |-> st.len, done |-> TRUE]
    ELSE IF b[(st.len - 1) + 1] # 0 THEN [len |-> st.len, done |-> TRUE]
    ELSE [len |-> st.len - 1, done |-> FALSE]

\* k turns of the loop, run as two halves
RECURSIVE trim_turns(_, _, _)
trim_turns(b, st, k) ==
    IF k = 0 THEN st
    ELSE IF k = 1 THEN trim_step(b, st)
    ELSE LET half == trim_turns(b, st, k \div 2)
         IN  IF half.done THEN half
             ELSE trim_turns(b, half, k - (k \div 2))

\* the loop run to its end from `len`: it ends within len turns, since
\* every turn that does not end it decrements len
trim_len(b, len) == trim_turns(b, [len |-> len, done |-> FALSE], len).len

\* effective_len with the declared length never trusted
effective_len_inferred(len, b) == trim_len(b, Len(b) - 1)

\* the effective length of Value::new: the declared one if nonzero, else
\* inferred starting from bytes.len() - 1
effective_len(len, b) ==
    IF len # 0 THEN len ELSE trim_len(b, Len(b) - 1)

\* Value::new(vtype, len, bytes)
Value_new(vtype, len, b) ==
    IF ~(len <= Len(b)) THEN Panic("assert len <= bytes.len()")
    ELSE IF len = 0 /\ Len(b) = 0 THEN Panic("bytes.len() - 1 underflows")
    ELSE LET l == effective_len(len, b)
         IN  IF ~(l > 0) THEN Panic("assert len > 0")
             ELSE Ok([vtype |-> vtype, bytes |-> SubSeq(b, 1, l)])

(***************************************************************************)
(* magic.rs: the field decoders                                            *)
(***************************************************************************)
\* Relation::try_from
Relation_try_from(value) ==
    CASE value = 61  -> Ok("Equal")
      [] value = 33  -> Ok("NotEqual")
      [] value = 60  -> Ok("Lesser")
      [] value = 62  -> Ok("Greater")
      [] value = 94  -> Ok("BitXor")
      [] value = 38  -> Ok("BitAnd")
      [] value = 120 -> Ok("Anything")
      [] OTHER -> Err("InvalidRelation", value, 0)

\* FactorOperation::try_from
FactorOperation_try_from(value) ==
    CASE value = 0  -> Ok("None")
      [] value = 43 -> Ok("Add")
      [] value = 45 -> Ok("Subtract")
      [] value = 42 -> Ok("Multiply")
      [] value = 47 -> Ok("Divide")
      [] OTHER -> Err("InvalidFactorOperation", value, 0)

\* ConditionalType::try_from
ConditionalType_try_from(value) ==
    CASE value = 0 -> Ok("None")
      [] value = 1 -> Ok("If")
      [] value = 2 -> Ok("Elif")
      [] value = 3 -> Ok("Else")
      [] OTHER -> Err("InvalidConditionalType", value, 0)

\* value & mask == mask, for a one-bit mask
bit_set(value, mask) == (value \div mask) % 2 = 1

\* IndirectionOperation::try_from with the test made on bit 0x08 alone
IndirectionOperation_try_from_one_bit(value) ==
    IF (value \div 8) % 2 # 0
    THEN Err("InvalidIndirectionOperationBitSet", 0, 0)
    ELSE Ok([op |-> <<"And", "Or", "Xor", "Add", "Subtract", "Multiply",
                      "Divide", "Modulo">>[(value % 8) + 1],
             flags |-> [signed |-> bit_set(value, 32),
                        inverse |-> bit_set(value, 64),
                        indirect |-> bit_set(value, 128)]])

\* IndirectionOperation::try_from
IndirectionOperation_try_from(value) ==
    IF (value \div 8) % 4 # 0  \* value & 0x18 != 0
    THEN Err("InvalidIndirectionOperationBitSet", 0, 0)
    ELSE LET low == value % 8  \* value & 0x07
             op == CASE low = 0 -> "And"
                     [] low = 1 -> "Or"
                     [] low = 2 -> "Xor"
                     [] low = 3 -> "Add"
                     [] low = 4 -> "Subtract"
                     [] low = 5 -> "Multiply"
                     [] low = 6 -> "Divide"
                     [] low = 7 -> "Modulo"
                     [] OTHER -> "panic"
         IN  IF op = "panic" THEN Panic("value & 0x07 failed?")
             ELSE Ok([op |-> op,
                      flags |-> [signed |-> bit_set(value, 32),
                                 inverse |-> bit_set(value, 64),
                                 indirect |-> bit_set(value, 128)]])

\* is s[i] a byte of s in lo..hi
cont_in(s, i, lo, hi) == i <= Len(s) /\ s[i] >= lo /\ s[i] <= hi

\* the length of the UTF-8 sequence that starts at s[i], 0 if none does
utf8_char_len(s, i) ==
    LET c == s[i]
    IN  CASE c < 128 -> 1
          [] c >= 194 /\ c <= 223 ->
               IF cont_in(s, i + 1, 128, 191) THEN 2 ELSE 0
          [] c = 224 ->
               IF cont_in(s, i + 1, 160, 191)
                  /\ cont_in(s, i + 2, 128, 191) THEN 3 ELSE 0
          [] (c >= 225 /\ c <= 236) \/ c = 238 \/ c = 239 ->
               IF cont_in(s, i + 1, 128, 191)
                  /\ cont_in(s, i + 2, 128, 191) THEN 3 ELSE 0
          [] c = 237 ->
               IF cont_in(s, i + 1, 128, 159)
                  /\ cont_in(s, i + 2, 128, 191) THEN 3 ELSE 0
          [] c = 240 ->
               IF cont_in(s, i + 1, 144, 191)
                  /\ cont_in(s, i + 2, 128, 191)
                  /\ cont_in(s, i + 3, 128, 191) THEN 4 ELSE 0
          [] c >= 241 /\ c <= 243 ->
               IF cont_in(s, i + 1, 128, 191)
                  /\ cont_in(s, i + 2, 128, 191)
                  /\ cont_in(s, i + 3, 128, 191) THEN 4 ELSE 0
          [] c = 244 ->
               IF cont_in(s, i + 1, 128, 143)
                  /\ cont_in(s, i + 2, 128, 191)
                  /\ cont_in(s, i + 3, 128, 191) THEN 4 ELSE 0
          [] OTHER -> 0

\* one character of the scan of std::str::from_utf8 on the scan state
\* [at, done]: `at` bytes are known to be valid
utf8_step(s, st) ==
    IF st.done \/ st.at >= Len(s) THEN [at |-> st.at, done |-> TRUE]
    ELSE LET n == utf8_char_len(s, st.at + 1)
         IN  IF n = 0 THEN [at |-> st.at, done |-> TRUE]
             ELSE [at |-> st.at + n, done |-> FALSE]

\* k characters of the scan, run as two halves
RECURSIVE utf8_scan(_, _, _)
utf8_scan(s, st, k) ==
    IF k = 0 THEN st
    ELSE IF k = 1 THEN utf8_step(s, st)
    ELSE LET half == utf8_scan(s, st, k \div 2)
         IN  IF half.done THEN half
             ELSE utf8_scan(s, half, k - (k \div 2))

\* std::str::from_utf8: the number of bytes of s that form valid UTF-8
\* before the first invalid sequence (Utf8Error::valid_up_to); all of s is
\* valid when it equals Len(s)
valid_up_to(s) == utf8_scan(s, [at |-> 0, done |-> FALSE], Len(s)).at

\* first_null with no zero byte ever found
first_null_none(b) == Len(b)

\* bytes.iter().position(|b| *b == 0).unwrap_or(bytes.len())
first_null(b) ==
    LET z == {i \in 1..Len(b) : b[i] = 0}
    IN  IF z = {} THEN Len(b)
        ELSE (CHOOSE i \in z : \A j \in z : i <= j) - 1

\* bytes_to_string: the text is kept as its UTF-8 bytes
bytes_to_string(b) ==
    LET prefix == SubSeq(b, 1, first_null(b))
        good == valid_up_to(prefix)
    IN  IF good = Len(prefix) THEN Ok(prefix)
        ELSE Err("InvalidUtf8", good, 0)

\* the conversion `?` applies to a ValueError: MagicError::Value(e)
MagicError_from_ValueError(r) == Err("Value", r.err, 0)

(***************************************************************************)
(* magic.rs: Magic::from_bytes                                             *)
(***************************************************************************)
from_bytes(b) ==
    IF Len(b) # MAGIC_SIZE
    THEN Err("InvalidBufferLength", Len(b), MAGIC_SIZE)
    ELSE
    LET cont_level == u16_read_le(SubSeq(b, 1, 2))
        flags == b[3]
        factor == b[4]
        relation == Relation_try_from(b[5])
        value_len == b[6]
        value_type == ValueType_try_from(b[7])
        indirection_type == ValueType_try_from(b[8])
        indirection_operation == IndirectionOperation_try_from(b[9])
        mask_operation == IndirectionOperation_try_from(b[10])
        conditional_type == ConditionalType_try_from(b[11])
        factor_operation == FactorOperation_try_from(b[12])
        offset == i32_read_le(SubSeq(b, 13, 16))
        indirection_offset == i32_read_le(SubSeq(b, 17, 20))
        line_number == u32_read_le(SubSeq(b, 21, 24))
        value_options ==
            IF value_len > 0
            THEN [variant |-> "String",
                  count |-> u32_read_le(SubSeq(b, 25, 28)),
                  flags |-> u32_read_le(SubSeq(b, 29, 32))]
            ELSE [variant |-> "Numeric",
                  mask |-> u64_read_le(SubSeq(b, 25, 32))]
        value == Value_new(value_type.val, value_len, SubSeq(b, 33, 160))
        desc == bytes_to_string(SubSeq(b, 161, 224))
        mimetype == bytes_to_string(SubSeq(b, 225, 304))
        apple == bytes_to_string(SubSeq(b, 305, 312))
        ext == bytes_to_string(SubSeq(b, 313, 432))
    IN  IF relation.tag # "Ok" THEN relation
        ELSE IF value_type.tag # "Ok"
             THEN MagicError_from_ValueError(value_type)
        ELSE IF indirection_type.tag # "Ok"
             THEN MagicError_from_ValueError(indirection_type)
        ELSE IF indirection_operation.tag # "Ok" THEN indirection_operation
        ELSE IF mask_operation.tag # "Ok" THEN mask_operation
        ELSE IF conditional_type.tag # "Ok" THEN conditional_type
        ELSE IF factor_operation.tag # "Ok" THEN factor_operation
        ELSE IF value.tag = "Err" THEN MagicError_from_ValueError(value)
        ELSE IF value.tag # "Ok" THEN value
        ELSE IF desc.tag # "Ok" THEN desc
        ELSE IF mimetype.tag # "Ok" THEN mimetype
        ELSE IF apple.tag # "Ok" THEN apple
        ELSE IF ext.tag # "Ok" THEN ext
        ELSE Ok([cont_level |-> cont_level,
                 flags |-> flags,
                 factor |-> factor,
                 relation |-> relation.val,
                 value_len |-> value_len,
                 value_type |-> value_type.val,
                 indirection_type |-> indirection_type.val,
                 indirection_operation |-> indirection_operation.val,
                 mask_operation |-> mask_operation.val,
                 conditional_type |-> conditional_type.val,
                 factor_operation |-> factor_operation.val,
                 offset |-> offset,
                 indirection_offset |-> indirection_offset,
                 line_number |-> line_number,
                 value_options |-> value_options,
                 value |-> value.val,
                 desc |-> desc.val,
                 mimetype |-> mimetype.val,
                 apple |-> apple.val,
                 ext |-> ext.val])

(***************************************************************************)
(* loader.rs: load_db_impl, one action per step of the function.           *)
(*   pc = "start"    the length check (lines 53-56)                        *)
(*   pc = "min"      the minimum record count (61-63)                      *)
(*   pc = "magic"    the magic marker (70-76)                              *)
(*   pc = "version"  the version (78-84)                                   *)
(*   pc = "counts"   the record-count cross-check (88-96)                  *)
(*   pc = "decode"   Magic::from_bytes on the next slice (104-110)         *)
(*   pc = "split"    split_off and the result (112-118)                    *)
(***************************************************************************)
NoResult == [tag |-> "None"]

Return(r) == result' = r /\ pc' = "done"

\* bytes.len() / MAGIC_SIZE and the check that nothing remains
CheckLength ==
    /\ pc = "start"
    /\ num_records' = Len(bytes) \div MAGIC_SIZE
    /\ IF num_records' * MAGIC_SIZE # Len(bytes)
       THEN Return(Err("InvalidBufferLength", Len(bytes), MAGIC_SIZE))
       ELSE pc' = "min" /\ UNCHANGED result
    /\ UNCHANGED <<host, bytes, left_num_records, right_num_records, records,
                   caller_vars>>

\* num_records < MAGIC_SETS + 1
CheckMinRecords ==
    /\ pc = "min"
    /\ IF num_records < MAGIC_SETS + 1
       THEN Return(Err("InvalidRecordCount", num_records, 0))
       ELSE pc' = "magic" /\ UNCHANGED result
    /\ UNCHANGED <<host, bytes, num_records, left_num_records,
                   right_num_records, records, caller_vars>>

\* the outcome of the magic-marker check on host h: "ok", or the error
magic_check(h, b) ==
    LET magic == u32_read_le(b)
    IN  IF magic # MAGIC_CONSTANT
        THEN IF u32_from_be(h, magic) = MAGIC_CONSTANT
             THEN Err("InvalidEndianness", 0, 0)
             ELSE Err("InvalidMagicConstant", magic, MAGIC_CONSTANT)
        ELSE Ok("magic")

CheckMagic ==
    /\ pc = "magic"
    /\ LET r == magic_check(host, bytes)
       IN  IF r.tag = "Err" THEN Return(r)
           ELSE pc' = "version" /\ UNCHANGED result
    /\ UNCHANGED <<host, bytes, num_records, left_num_records,
                   right_num_records, records, caller_vars>>

\* the version word at bytes[4..]
CheckVersion ==
    /\ pc = "version"
    /\ LET version == u32_read_le(SubSeq(bytes, 5, 8))
       IN  IF version # MAGIC_DATABASE_VERSION
           THEN Return(Err("InvalidDatabaseVersion", version,
                           MAGIC_DATABASE_VERSION))
           ELSE pc' = "counts" /\ UNCHANGED result
    /\ UNCHANGED <<host, bytes, num_records, left_num_records,
                   right_num_records, records, caller_vars>>

\* count_sum without the reserved header slice counted
count_sum_no_header(left, right) ==
    LET s == u32_add(left, right)
    IN  [val |-> s.val, overflow |-> s.overflow]

\* `1 + left_num_records + right_num_records`, evaluated in u32 from the
\* left: the wrapped value and whether either addition overflowed
count_sum(left, right) ==
    LET s1 == u32_add([lo |-> 1, hi |-> 0], left)
        s2 == u32_add(s1.val, right)
    IN  [val |-> s2.val, overflow |-> s1.overflow \/ s2.overflow]

\* the first value of InvalidDatabaseRecordCount:
\* `(left_num_records + right_num_records) as usize`
count_reported(left, right) == u32_add(left, right)

\* the outcome of the cross-check for the two counts and num_records, in a
\* build with overflow checks (a debug build) or without (a release build):
\* "pass", an error, or a panic on arithmetic overflow
count_check(overflow_checks, left, right, n) ==
    LET sum == count_sum(left, right)
        rep == count_reported(left, right)
    IN  IF overflow_checks /\ sum.overflow
        THEN Panic("attempt to add with overflow")
        ELSE IF ~u32_as_usize_eq(sum.val, n)
        THEN IF overflow_checks /\ rep.overflow
             THEN Panic("attempt to add with overflow")
             ELSE Err("InvalidDatabaseRecordCount", rep.val, n)
        ELSE Ok("pass")

CheckCounts ==
    /\ pc = "counts"
    /\ left_num_records' = u32_read_le(SubSeq(bytes, 9, 12))
    /\ right_num_records' = u32_read_le(SubSeq(bytes, 13, 16))
    /\ \E overflow_checks \in BOOLEAN :
         LET r == count_check(overflow_checks, left_num_records',
                              right_num_records', num_records)
         IN  IF r.tag = "Ok" THEN pc' = "decode" /\ UNCHANGED result
             ELSE Return(r)
    /\ UNCHANGED <<host, bytes, num_records, records, caller_vars>>

\* the i-th chunk (i >= 1) of bytes[MAGIC_SIZE..].chunks_exact(MAGIC_SIZE)
record_chunk(b, i) == SubSeq(b, MAGIC_SIZE * i + 1, MAGIC_SIZE * (i + 1))

\* one step of `.map(Magic::from_bytes).collect::<Result<Vec<_>, _>>()?`:
\* the next chunk is decoded; the first error ends the load.  (The println!
\* that follows the collect writes to stdout only.)
DecodeRecord ==
    /\ pc = "decode"
    /\ LET m == IF (Len(bytes) - MAGIC_SIZE) % MAGIC_SIZE # 0
                THEN Panic("assert iter.remainder().is_empty()")
                ELSE from_bytes(record_chunk(bytes, Len(records) + 1))
       IN  CASE m.tag = "Ok" ->
                  /\ records' = Append(records, m.val)
                  /\ pc' = IF Len(records') = num_records - 1
                           THEN "split" ELSE "decode"
                  /\ UNCHANGED result
             [] m.tag = "Err" ->
                  /\ Return(Err("Magic", m.err, 0))
                  /\ UNCHANGED records
             [] OTHER ->
                  /\ Return(m)
                  /\ UNCHANGED records
    /\ UNCHANGED <<host, bytes, num_records, left_num_records,
                   right_num_records, caller_vars>>

\* split_off with the two parts handed out the wrong way round
split_off_swapped(v, at) ==
    IF u32_as_usize_gt(at, Len(v))
    THEN Panic("split_off: at > len")
    ELSE Ok([left |-> SubSeq(v, at.lo + 1, Len(v)),
             right |-> SubSeq(v, 1, at.lo)])

\* Vec::split_off(at): panics if at > len, else the two parts
split_off(v, at) ==
    IF u32_as_usize_gt(at, Len(v))
    THEN Panic("split_off: at > len")
    ELSE Ok([left |-> SubSeq(v, 1, at.lo),
             right |-> SubSeq(v, at.lo + 1, Len(v))])

SplitRecords ==
    /\ pc = "split"
    /\ Return(split_off(records, left_num_records))
    /\ UNCHANGED <<host, bytes, num_records, left_num_records,
                   right_num_records, records, caller_vars>>

load_db_impl ==
    \/ CheckLength
    \/ CheckMinRecords
    \/ CheckMagic
    \/ CheckVersion
    \/ CheckCounts
    \/ DecodeRecord
    \/ SplitRecords

(***************************************************************************)
(* Callers of the pure decoders: Value::new on a window, ValueType's       *)
(* try_from on a byte, and Magic::from_bytes on a slice holding them.      *)
(***************************************************************************)
\* Value::new(vtype, len, bytes) on the input v_in
CallValueNew ==
    /\ v_in # NoResult
    /\ v_out = NoResult
    /\ v_out' = Value_new(v_in.vtype, v_in.len, v_in.bytes)
    /\ UNCHANGED <<loader_vars, v_in, t_in, t_out, m_in, m_out,
                   o_in, o_out, s_in, s_out>>

\* ValueType::try_from(byte) on the input t_in
CallValueTypeTryFrom ==
    /\ t_in # NoResult
    /\ t_out = NoResult
    /\ t_out' = ValueType_try_from(t_in.byte)
    /\ UNCHANGED <<loader_vars, v_in, v_out, t_in, m_in, m_out,
                   o_in, o_out, s_in, s_out>>

\* Magic::from_bytes(slice) on the input m_in
CallFromBytes ==
    /\ m_in # NoResult
    /\ m_out = NoResult
    /\ m_out' = from_bytes(m_in.slice)
    /\ UNCHANGED <<loader_vars, v_in, v_out, t_in, t_out, m_in,
                   o_in, o_out, s_in, s_out>>

\* IndirectionOperation::try_from(byte) on the input o_in
CallIndirectionOperationTryFrom ==
    /\ o_in # NoResult
    /\ o_out = NoResult
    /\ o_out' = IndirectionOperation_try_from(o_in.byte)
    /\ UNCHANGED <<loader_vars, v_in, v_out, t_in, t_out, m_in, m_out,
                   o_in, s_in, s_out>>

\* bytes_to_string(window) on the input s_in
CallBytesToString ==
    /\ s_in # NoResult
    /\ s_out = NoResult
    /\ s_out' = bytes_to_string(s_in.window)
    /\ UNCHANGED <<loader_vars, v_in, v_out, t_in, t_out, m_in, m_out,
                   o_in, o_out, s_in>>

(***************************************************************************)
(* Inputs.                                                                 *)
(***************************************************************************)
Pad(s, n) == s \o Zeros(n - Len(s))

\* the header slice: magic, version, left and right counts as little-endian
\* u32 at offsets 0, 4, 8, 12; the rest of the slice is not interpreted
HeaderSlice(magic, version, left, right) ==
    Pad(u32_to_le_bytes(magic) \o u32_to_le_bytes(version)
          \o u32_to_le_bytes(left) \o u32_to_le_bytes(right), MAGIC_SIZE)

\* a record slice with the given field bytes, laid out as from_bytes reads it
RecordSlice(f) ==
    <<f.cont_level % 256, f.cont_level \div 256, f.flags, f.factor,
      f.relation, f.value_len, f.value_type, f.indirection_type,
      f.indirection_operation, f.mask_operation, f.conditional_type,
      f.factor_operation>>
      \o Pad(f.offset, 4) \o Pad(f.indirection_offset, 4)
      \o Pad(f.line_number, 4) \o Pad(f.value_options, 8)
      \o Pad(f.value, 128) \o Pad(f.desc, 64) \o Pad(f.mimetype, 80)
      \o Pad(f.apple, 8) \o Pad(f.ext, 120)

\* the minimal valid record: relation 'x', factor operation NUL, conditional
\* type 0, indirection and mask bytes 0, value type Byte, declared value
\* length 1, one payload byte, empty text fields
MinimalFields ==
    [cont_level |-> 0, flags |-> 0, factor |-> 0, relation |-> 120,
     value_len |-> 1, value_type |-> 1, indirection_type |-> 0,
     indirection_operation |-> 0, mask_operation |-> 0,
     conditional_type |-> 0, factor_operation |-> 0, offset |-> <<>>,
     indirection_offset |-> <<>>, line_number |-> <<>>,
     value_options |-> <<>>, value |-> <<7>>, desc |-> <<>>,
     mimetype |-> <<>>, apple |-> <<>>, ext |-> <<>>]

\* another valid record: a string test "hi" with inferred length, texts set
StringFields ==
    [cont_level |-> 258, flags |-> 9, factor |-> 50, relation |-> 61,
     value_len |-> 0, value_type |-> 5, indirection_type |-> 4,
     indirection_operation |-> 35, mask_operation |-> 196,
     conditional_type |-> 1, factor_operation |-> 43,
     offset |-> <<255, 255, 255, 255>>, indirection_offset |-> <<16>>,
     line_number |-> <<1, 2, 3, 244>>,
     value_options |-> <<1, 0, 0, 0, 0, 0, 0, 128>>,
     value |-> <<104, 105>>, desc |-> <<97, 98, 99>>,
     mimetype |-> <<116, 47, 195, 169>>, apple |-> <<65, 66, 67, 68>>,
     ext |-> <<116, 120, 116>>]

RecordKinds == {"minimal", "string", "bad_relation", "bad_utf8", "long_value"}

KindSlice(k) ==
    CASE k = "minimal" -> RecordSlice(MinimalFields)
      [] k = "string" -> RecordSlice(StringFields)
      [] k = "bad_relation" ->
           RecordSlice([MinimalFields EXCEPT !.relation = 122])
      [] k = "bad_utf8" ->
           RecordSlice([StringFields EXCEPT !.mimetype = <<116, 255>>])
      [] k = "long_value" ->
           RecordSlice([MinimalFields EXCEPT !.value_len = 200])

RECURSIVE Slices(_)
Slices(ks) ==
    IF ks = <<>> THEN <<>> ELSE KindSlice(Head(ks)) \o Slices(Tail(ks))

U32_MAX == [lo |-> Limb - 1, hi |-> Limb - 1]

\* header counts: the small ones and the largest u32
Counts == {usize_limbs(n) : n \in 0..MaxRecords} \cup {U32_MAX}

\* 0x1C041EF1: the marker of a database written on a big-endian machine
SwappedMagic == u32_swap_bytes(MAGIC_CONSTANT)

Magics == {MAGIC_CONSTANT, SwappedMagic, [lo |-> 1052, hi |-> 0]}

Versions ==
    {MAGIC_DATABASE_VERSION, [lo |-> 19, hi |-> 1], [lo |-> 18, hi |-> 0]}

Hosts == {"le", "be"}

KindSeqs(lo, hi) == UNION {[1..k -> RecordKinds] : k \in lo..hi}

\* the count pairs a header of k record slices can carry and pass the
\* cross-check with: those with 1 + l + r = k + 1, and the pair whose sum
\* is k + 1 only after wrapping at 32 bits
CountPairs(k) ==
    {<<usize_limbs(i), usize_limbs(k - i)>> : i \in 0..k}
    \cup {<<U32_MAX, usize_limbs(k + 1)>>}

\* buffers with a valid marker and version, counts that pass the
\* cross-check, and between two and MaxRecords - 1 record slices of any kind
RecordBuffers ==
    UNION {{HeaderSlice(MAGIC_CONSTANT, MAGIC_DATABASE_VERSION, c[1], c[2])
              \o Slices(ks) : c \in CountPairs(Len(ks))} :
           ks \in KindSeqs(2, MaxRecords - 1)}

\* buffers of any header, zero to MaxRecords slices in all (the records
\* valid, minimal and string records in turn) and zero, one or 431 bytes more
HeaderBuffers ==
    {Zeros(t) : t \in {0, 1, MAGIC_SIZE - 1}}
    \cup {HeaderSlice(m, v, l, r)
            \o Slices([i \in 1..k |->
                         IF i % 2 = 1 THEN "minimal" ELSE "string"])
            \o Zeros(t) :
          m \in Magics, v \in Versions, l \in Counts, r \in Counts,
          k \in 0..(MaxRecords - 1), t \in {0, 1, MAGIC_SIZE - 1}}

LoaderInit(buffers) ==
    /\ host \in Hosts
    /\ bytes \in buffers
    /\ pc = "start"
    /\ num_records = 0
    /\ left_num_records = [lo |-> 0, hi |-> 0]
    /\ right_num_records = [lo |-> 0, hi |-> 0]
    /\ records = <<>>
    /\ result = NoResult
    /\ v_in = NoResult /\ v_out = NoResult
    /\ t_in = NoResult /\ t_out = NoResult
    /\ m_in = NoResult /\ m_out = NoResult
    /\ o_in = NoResult /\ o_out = NoResult
    /\ s_in = NoResult /\ s_out = NoResult

LoaderIdle ==
    /\ host = "le"
    /\ bytes = <<>>
    /\ pc = "done"
    /\ num_records = 0
    /\ left_num_records = [lo |-> 0, hi |-> 0]
    /\ right_num_records = [lo |-> 0, hi |-> 0]
    /\ records = <<>>
    /\ result = NoResult

\* the window with byte (i % 250) + 1 at each offset i of S, zero elsewhere
Window(S) == [i \in 1..VALUE_WINDOW |->
                IF (i - 1) \in S THEN ((i - 1) % 250) + 1 ELSE 0]

Windows ==
    {Window(S) : S \in SUBSET {0, 1, 63, 126, 127}}
    \cup {Pad(<<104, 105>>, VALUE_WINDOW), Window(0..(VALUE_WINDOW - 1))}

DeclaredLens == {0, 1, 2, 127, 128, 129, 200, 255}

\* Value::new on every window and declared length, directly and through
\* the record that carries them
InitValue ==
    /\ LoaderIdle
    /\ v_in \in [vtype : {"Byte", "String"}, len : DeclaredLens,
                 bytes : Windows]
    /\ m_in = [slice |->
                 RecordSlice([MinimalFields EXCEPT
                                !.value_len = v_in.len,
                                !.value_type = ValueType[v_in.vtype],
                                !.value = v_in.bytes])]
    /\ v_out = NoResult /\ m_out = NoResult
    /\ t_in = NoResult /\ t_out = NoResult
    /\ o_in = NoResult /\ o_out = NoResult
    /\ s_in = NoResult /\ s_out = NoResult

\* ValueType::try_from on every byte, directly and through a record that
\* carries the byte as its value type (offset 6) or indirection type (7)
InitValueType ==
    /\ LoaderIdle
    /\ t_in \in [byte : 0..255, at : {6, 7}]
    /\ m_in = [slice |->
                 RecordSlice(IF t_in.at = 6
                             THEN [MinimalFields EXCEPT
                                     !.value_type = t_in.byte]
                             ELSE [MinimalFields EXCEPT
                                     !.indirection_type = t_in.byte])]
    /\ t_out = NoResult /\ m_out = NoResult
    /\ v_in = NoResult /\ v_out = NoResult
    /\ o_in = NoResult /\ o_out = NoResult
    /\ s_in = NoResult /\ s_out = NoResult

\* IndirectionOperation::try_from on every byte, directly and through a
\* record that carries the byte as its indirection operation (offset 8) or
\* its mask operation (offset 9)
InitIndirection ==
    /\ LoaderIdle
    /\ o_in \in [byte : 0..255, at : {8, 9}]
    /\ m_in = [slice |->
                 RecordSlice(IF o_in.at = 8
                             THEN [MinimalFields EXCEPT
                                     !.indirection_operation = o_in.byte]
                             ELSE [MinimalFields EXCEPT
                                     !.mask_operation = o_in.byte])]
    /\ o_out = NoResult /\ m_out = NoResult
    /\ v_in = NoResult /\ v_out = NoResult
    /\ t_in = NoResult /\ t_out = NoResult
    /\ s_in = NoResult /\ s_out = NoResult

\* the four text fields of a record and the widths of their windows:
\* bytes[160..224], [224..304], [304..312], [312..432]
TextFields == [desc |-> 64, mimetype |-> 80, apple |-> 8, ext |-> 120]

\* texts of at most eight bytes: well-formed ones of every sequence length
\* and at the edges of the ranges, and ill-formed ones (a lone continuation
\* byte, overlong forms, a surrogate, a code point past U+10FFFF, bytes
\* that never occur, a sequence cut short)
Texts ==
    {<<>>, <<97, 98, 99>>, <<195, 169>>, <<97, 226, 130, 172>>,
     <<240, 159, 152, 128>>, <<237, 159, 191>>, <<244, 143, 191, 191>>,
     <<224, 160, 128>>, <<97, 98, 99, 100, 101, 102, 103, 104>>,
     <<97, 98, 99, 100, 101, 102, 195, 169>>,
     <<128>>, <<192, 128>>, <<224, 159, 128>>, <<237, 160, 128>>,
     <<240, 143, 128, 128>>, <<244, 144, 128, 128>>,
     <<245, 128, 128, 128>>, <<255>>, <<97, 195>>, <<97, 226, 130>>,
     <<97, 98, 99, 100, 101, 102, 103, 195>>}

TailKinds == {"zeros", "garbage", "fill", "fill_bad"}

\* what follows the text in its window, n bytes: zeros; a zero and then
\* bytes 0xFF; letters with no zero; letters with no zero and a last 0xFF
TailBytes(kind, n) ==
    [i \in 1..n |->
       CASE kind = "zeros" -> 0
         [] kind = "garbage" -> IF i = 1 THEN 0 ELSE 255
         [] kind = "fill" -> 97
         [] kind = "fill_bad" -> IF i = n THEN 255 ELSE 97]

TextWindows(width) ==
    {t \o TailBytes(k, width - Len(t)) : t \in Texts, k \in TailKinds}

\* bytes_to_string on every window of each of the four widths, directly and
\* through the record that carries the window as that text field
InitString ==
    /\ LoaderIdle
    /\ \E f \in DOMAIN TextFields :
         \E w \in TextWindows(TextFields[f]) :
            /\ s_in = [field |-> f, window |-> w]
            /\ m_in = [slice |-> RecordSlice([MinimalFields EXCEPT ![f] = w])]
    /\ s_out = NoResult /\ m_out = NoResult
    /\ v_in = NoResult /\ v_out = NoResult
    /\ t_in = NoResult /\ t_out = NoResult
    /\ o_in = NoResult /\ o_out = NoResult

\* the fields of a record that can fail to decode, in the order
\* Magic::from_bytes decodes them
FallibleFields ==
    <<"relation", "value_type", "indirection_type", "indirection_operation",
      "mask_operation", "conditional_type", "factor_operation", "value",
      "desc", "mimetype", "apple", "ext">>

\* the string record with the fields of `bad` made invalid: relation 'z',
\* value type 60, indirection type 61, indirection operation with bit
\* 0x08, mask operation with bit 0x10, conditional type 4, factor
\* operation '%', declared value length 200, and a byte 0xFF after one,
\* two, three and four letters of the four texts
BrokenFields(bad) ==
    [f \in DOMAIN StringFields |->
       CASE f = "relation" /\ f \in bad -> 122
         [] f = "value_type" /\ f \in bad -> 60
         [] f = "indirection_type" /\ f \in bad -> 61
         [] f = "indirection_operation" /\ f \in bad -> 8
         [] f = "mask_operation" /\ f \in bad -> 16
         [] f = "conditional_type" /\ f \in bad -> 4
         [] f = "factor_operation" /\ f \in bad -> 37
         [] f = "value_len" /\ "value" \in bad -> 200
         [] f = "desc" /\ f \in bad -> <<97, 255>>
         [] f = "mimetype" /\ f \in bad -> <<97, 98, 255>>
         [] f = "apple" /\ f \in bad -> <<97, 98, 99, 255>>
         [] f = "ext" /\ f \in bad -> <<97, 98, 99, 100, 255>>
         [] OTHER -> StringFields[f]]

\* Magic::from_bytes on the string record with every set of its fields
\* made invalid
InitRecord ==
    /\ LoaderIdle
    /\ \E bad \in SUBSET {FallibleFields[i] : i \in DOMAIN FallibleFields} :
         m_in = [slice |-> RecordSlice(BrokenFields(bad)), bad |-> bad]
    /\ m_out = NoResult
    /\ v_in = NoResult /\ v_out = NoResult
    /\ t_in = NoResult /\ t_out = NoResult
    /\ o_in = NoResult /\ o_out = NoResult
    /\ s_in = NoResult /\ s_out = NoResult

(***************************************************************************)
(* Specifications.                                                         *)
(***************************************************************************)
Next == load_db_impl

\* load_db_impl on buffers with a valid marker and version
Spec == LoaderInit(RecordBuffers) /\ [][Next]_vars

\* load_db_impl on buffers of any header
SpecHeader == LoaderInit(HeaderBuffers) /\ [][Next]_vars

NextValue == CallValueNew \/ CallFromBytes

SpecValue == InitValue /\ [][NextValue]_vars

NextValueType == CallValueTypeTryFrom \/ CallFromBytes

SpecValueType == InitValueType /\ [][NextValueType]_vars

NextIndirection == CallIndirectionOperationTryFrom \/ CallFromBytes

SpecIndirection == InitIndirection /\ [][NextIndirection]_vars

NextString == CallBytesToString \/ CallFromBytes

SpecString == InitString /\ [][NextString]_vars

NextRecord == CallFromBytes

SpecRecord == InitRecord /\ [][NextRecord]_vars

(***************************************************************************)
(* The vocabulary of the properties below, read off the buffer itself and  *)
(* not off the loader's variables.                                         *)
(***************************************************************************)
\* the little-endian 32-bit word at byte offset off of b
WordAt(b, off) == [lo |-> b[off + 1] + 256 * b[off + 2],
                   hi |-> b[off + 3] + 256 * b[off + 4]]

LeftCount(b) == WordAt(b, 8)
RightCount(b) == WordAt(b, 12)
TotalRecordCount(b) == Len(b) \div 432

\* the slice of index i (the header slice has index 0)
SliceAt(b, i) == SubSeq(b, 432 * i + 1, 432 * (i + 1))

LengthHolds(b) == Len(b) % 432 = 0
MinimumHolds(b) == TotalRecordCount(b) >= 3
\* bytes 0..4 are 1C 04 1E F1
MarkerHolds(b) == SubSeq(b, 1, 4) = <<28, 4, 30, 241>>
\* bytes 0..4 are F1 1E 04 1C
MarkerReversed(b) == SubSeq(b, 1, 4) = <<241, 30, 4, 28>>
\* bytes 4..8 are 19 as a little-endian word
VersionHolds(b) == SubSeq(b, 5, 8) = <<19, 0, 0, 0>>

\* 1 + left + right = n over the integers, for a total n below 2^16: both
\* counts are then below 2^16 as well
SumIs(l, r, n) == l.hi = 0 /\ r.hi = 0 /\ 1 + l.lo + r.lo = n

CountsHold(b) == SumIs(LeftCount(b), RightCount(b), TotalRecordCount(b))

\* 1 + left + right over the integers, as three 16-bit limbs
Sum3(l, r) ==
    LET s0 == 1 + l.lo + r.lo
        s1 == l.hi + r.hi + (s0 \div Limb)
    IN  [lo |-> s0 % Limb, hi |-> s1 % Limb, top |-> s1 \div Limb]

\* the first check of the header that fails, in the order length, minimum
\* count, marker, version, counts
FirstFailing(b) ==
    IF ~LengthHolds(b) THEN "length"
    ELSE IF ~MinimumHolds(b) THEN "minimum"
    ELSE IF ~MarkerHolds(b) THEN "marker"
    ELSE IF ~VersionHolds(b) THEN "version"
    ELSE IF ~CountsHold(b) THEN "counts"
    ELSE "none"

Done == pc = "done" /\ result # NoResult

ResultIsErr(kind) == result.tag = "Err" /\ result.err.kind = kind

\* the record the minimal record slice stands for
MinimalDecoded ==
    [cont_level |-> 0, flags |-> 0, factor |-> 0, relation |-> "Anything",
     value_len |-> 1, value_type |-> "Byte", indirection_type |-> "Invalid",
     indirection_operation |->
         [op |-> "And", flags |-> [signed |-> FALSE, inverse |-> FALSE,
                                   indirect |-> FALSE]],
     mask_operation |->
         [op |-> "And", flags |-> [signed |-> FALSE, inverse |-> FALSE,
                                   indirect |-> FALSE]],
     conditional_type |-> "None", factor_operation |-> "None",
     offset |-> 0, indirection_offset |-> 0,
     line_number |-> [lo |-> 0, hi |-> 0],
     value_options |-> [variant |-> "String", count |-> [lo |-> 0, hi |-> 0],
                        flags |-> [lo |-> 0, hi |-> 0]],
     value |-> [vtype |-> "Byte", bytes |-> <<7>>],
     desc |-> <<>>, mimetype |-> <<>>, apple |-> <<>>, ext |-> <<>>]

\* the 1296-byte buffer of the end-to-end example, with the given right count
IsExample(b, right) ==
    /\ Len(b) = 1296
    /\ MarkerHolds(b) /\ VersionHolds(b)
    /\ LeftCount(b) = [lo |-> 1, hi |-> 0]
    /\ RightCount(b) = [lo |-> right, hi |-> 0]
    /\ SliceAt(b, 1) = RecordSlice(MinimalFields)
    /\ from_bytes(SliceAt(b, 2)).tag = "Ok"

(***************************************************************************)
(* C1 (as stated): loading the example buffer (left_count = 1,             *)
(* right_count = 0, three slices) succeeds with left = the decode of       *)
(* slice 1 and right empty.                                                *)
(***************************************************************************)
C1_ExampleLoads ==
    (Done /\ IsExample(bytes, 0)) =>
        /\ result.tag = "Ok"
        /\ result.val.left = <<MinimalDecoded>>
        /\ result.val.right = <<>>

(***************************************************************************)
(* C1 (amended): the example buffer with right_count = 1 loads with left = *)
(* the decode of slice 1 and right = the decode of slice 2; with           *)
(* right_count = 0 the load fails with the record-count-mismatch error.    *)
(***************************************************************************)
C1_ExampleAmended ==
    /\ (Done /\ IsExample(bytes, 1)) =>
          /\ result.tag = "Ok"
          /\ result.val.left = <<MinimalDecoded>>
          /\ result.val.right = <<from_bytes(SliceAt(bytes, 2)).val>>
    /\ (Done /\ IsExample(bytes, 0)) =>
          ResultIsErr("InvalidDatabaseRecordCount")

C1_Witness ==
    Done /\ IsExample(bytes, 1) /\ result.tag = "Ok"
         /\ Len(result.val.left) = 1

(***************************************************************************)
(* C2: for a buffer past the length, minimum, marker and version checks,   *)
(* the header is accepted iff 1 + left + right = total_record_count over   *)
(* the integers; every other pair of counts is rejected with the           *)
(* record-count-mismatch error and never reaches the record slices.        *)
(***************************************************************************)
PastFourChecks(b) ==
    LengthHolds(b) /\ MinimumHolds(b) /\ MarkerHolds(b) /\ VersionHolds(b)

C2_CountCheckExact ==
    PastFourChecks(bytes) =>
        /\ pc \in {"decode", "split"} => CountsHold(bytes)
        /\ Done =>
             IF CountsHold(bytes)
             THEN ~ResultIsErr("InvalidDatabaseRecordCount")
             ELSE ResultIsErr("InvalidDatabaseRecordCount")

(***************************************************************************)
(* C3: the record-count-mismatch error carries 1 + left_count +            *)
(* right_count as its first value and total_record_count as its second.    *)
(***************************************************************************)
C3_MismatchCarriesSum ==
    (Done /\ ResultIsErr("InvalidDatabaseRecordCount")) =>
        /\ [lo |-> result.err.a.lo, hi |-> result.err.a.hi, top |-> 0]
             = Sum3(LeftCount(bytes), RightCount(bytes))
        /\ result.err.b = TotalRecordCount(bytes)

(***************************************************************************)
(* C4: the load returns the error of the first failing header check, in    *)
(* the order length, minimum count, marker, version, counts, and decodes   *)
(* no record slice unless all five hold; a length that is no multiple of   *)
(* 432 gives the length-mismatch error with the length and 432.            *)
(***************************************************************************)
C4_FirstFailingCheck ==
    LET f == FirstFailing(bytes)
    IN  /\ pc \in {"decode", "split"} => f = "none"
        /\ Done =>
             CASE f = "length" ->
                    /\ ResultIsErr("InvalidBufferLength")
                    /\ result.err.a = Len(bytes) /\ result.err.b = 432
               [] f = "minimum" -> ResultIsErr("InvalidRecordCount")
               [] f = "marker" ->
                    \/ ResultIsErr("InvalidEndianness")
                    \/ ResultIsErr("InvalidMagicConstant")
               [] f = "version" -> ResultIsErr("InvalidDatabaseVersion")
               [] f = "counts" -> ResultIsErr("InvalidDatabaseRecordCount")
               [] OTHER -> result.tag = "Ok" \/ ResultIsErr("Magic")
                             \/ result.tag = "Panic"

(***************************************************************************)
(* C5: past the length and minimum checks, bytes F1 1E 04 1C at offset 0   *)
(* give the wrong-endianness error and any other four bytes but            *)
(* 1C 04 1E F1 give the wrong-magic-constant error with the observed and   *)
(* expected values, on a little-endian and on a big-endian host alike.     *)
(***************************************************************************)
C5_MarkerClassified ==
    (Done /\ LengthHolds(bytes) /\ MinimumHolds(bytes)) =>
        /\ MarkerReversed(bytes) => ResultIsErr("InvalidEndianness")
        /\ (~MarkerReversed(bytes) /\ ~MarkerHolds(bytes)) =>
              /\ ResultIsErr("InvalidMagicConstant")
              /\ result.err.a = WordAt(bytes, 0)
              /\ result.err.b = [lo |-> 1052, hi |-> 61726]

(***************************************************************************)
(* C6: whenever the load succeeds, with R the records decoded from slices  *)
(* 1..total_record_count-1 in buffer order, left is the first left_count   *)
(* elements of R and right the rest, so left followed by right is R, and   *)
(* the two lengths are left_count and right_count.                         *)
(***************************************************************************)
C6_SplitPreservesOrder ==
    (Done /\ result.tag = "Ok") =>
        LET n == TotalRecordCount(bytes)
            l == LeftCount(bytes)
            r == RightCount(bytes)
        IN  /\ \A i \in 1..(n - 1) : from_bytes(SliceAt(bytes, i)).tag = "Ok"
            /\ l.hi = 0 /\ r.hi = 0
            /\ LET R == [i \in 1..(n - 1) |->
                           from_bytes(SliceAt(bytes, i)).val]
               IN  /\ result.val.left = SubSeq(R, 1, l.lo)
                   /\ result.val.right = SubSeq(R, l.lo + 1, n - 1)
                   /\ result.val.left \o result.val.right = R
                   /\ Len(result.val.left) = l.lo
                   /\ Len(result.val.right) = r.lo

C6_Witness ==
    /\ Done /\ result.tag = "Ok"
    /\ Len(result.val.left) = 2 /\ Len(result.val.right) = 1
    /\ result.val.left[1] # result.val.left[2]
    /\ result.val.left[2] # result.val.right[1]

(***************************************************************************)
(* C7: for a buffer with a valid header, if any record slice fails         *)
(* Magic::from_bytes the load returns the error of the lowest-indexed      *)
(* failing slice and no MagicMap; a MagicMap is returned only when every   *)
(* record slice decodes.                                                   *)
(***************************************************************************)
C7_FailFast ==
    (Done /\ PastFourChecks(bytes) /\ CountsHold(bytes)) =>
        LET n == TotalRecordCount(bytes)
            failing == {i \in 1..(n - 1) :
                          from_bytes(SliceAt(bytes, i)).tag = "Err"}
            first == CHOOSE i \in failing : \A j \in failing : i <= j
        IN  /\ failing # {} =>
                 /\ ResultIsErr("Magic")
                 /\ result.err.a.kind
                      = from_bytes(SliceAt(bytes, first)).err.kind
                 /\ result.err.a = from_bytes(SliceAt(bytes, first)).err
            /\ result.tag = "Ok" =>
                 \A i \in 1..(n - 1) : from_bytes(SliceAt(bytes, i)).tag = "Ok"

InferredLen(w) ==
    LET nz == {i \in 0..126 : w[i + 1] # 0}
        top == CHOOSE i \in nz : \A j \in nz : j <= i
    IN  IF nz = {} THEN 1 ELSE IF top + 1 > 1 THEN top + 1 ELSE 1

C9_InferredLength ==
    (v_out # NoResult /\ v_in.len = 0) =>
        /\ v_out.tag = "Ok"
        /\ v_out.val.bytes = SubSeq(v_in.bytes, 1, InferredLen(v_in.bytes))
        /\ Len(v_out.val.bytes) >= 1 /\ Len(v_out.val.bytes) <= 127
        /\ v_in.bytes = <<104, 105>> \o Zeros(126) =>
             v_out.val.bytes = <<104, 105>>
        /\ v_in.bytes = Zeros(128) => v_out.val.bytes = <<0>>

C9_Witness ==
    /\ v_in # NoResult /\ v_in.len = 0
    /\ v_in.bytes = <<104, 105>> \o Zeros(126)
    /\ v_out # NoResult /\ v_out.tag = "Ok" /\ Len(v_out.val.bytes) = 2

(***************************************************************************)
(* C10: ValueType::try_from(b) succeeds for every byte b in 0..59 with a   *)
(* variant whose cast to u8 is b, and fails with InvalidValueType(b) for   *)
(* every b in 60..255; the value-type byte (offset 6) and the              *)
(* indirection-type byte (offset 7) of a record go through the same        *)
(* decoder.                                                                *)
(***************************************************************************)
C10_ValueTypeRoundTrip ==
    /\ Cardinality(DOMAIN ValueType) = 60
    /\ t_out # NoResult =>
         IF t_in.byte \in 0..59
         THEN t_out.tag = "Ok" /\ ValueType[t_out.val] = t_in.byte
         ELSE /\ t_out.tag = "Err"
              /\ t_out.err.kind = "InvalidValueType"
              /\ t_out.err.a = t_in.byte
    /\ (t_in # NoResult /\ m_out # NoResult) =>
         IF t_in.byte \in 0..59
         THEN /\ m_out.tag = "Ok"
              /\ t_in.at = 6 => ValueType[m_out.val.value_type] = t_in.byte
              /\ t_in.at = 7 =>
                   ValueType[m_out.val.indirection_type] = t_in.byte
         ELSE /\ m_out.tag = "Err"
              /\ m_out.err.kind = "Value"
              /\ m_out.err.a.kind = "InvalidValueType"
              /\ m_out.err.a.a = t_in.byte

C10_Witness ==
    /\ t_in # NoResult /\ t_in.byte = 59 /\ t_in.at = 7
    /\ t_out # NoResult /\ t_out.tag = "Ok" /\ t_out.val = "Octal"
    /\ m_out # NoResult /\ m_out.tag = "Ok"
    /\ m_out.val.indirection_type = "Octal"

(***************************************************************************)
(* C11: for every byte b, IndirectionOperation::try_from(b) fails with     *)
(* InvalidIndirectionOperationBitSet if and only if bit 0x08 or bit 0x10   *)
(* of b is set, whatever the other six bits are; with both clear it        *)
(* succeeds with the operator numbered by the low three bits (0 And, 1 Or, *)
(* 2 Xor, 3 Add, 4 Subtract, 5 Multiply, 6 Divide, 7 Modulo), signed =     *)
(* bit 0x20, inverse = bit 0x40, indirect = bit 0x80; it never panics.     *)
(* The indirection operation (offset 8) and the mask operation (offset 9)  *)
(* of a record go through the same decoder.                                *)
(***************************************************************************)
\* the bits of b that are set, as the set of their weights
BitsOf(b) == {w \in {1, 2, 4, 8, 16, 32, 64, 128} : (b \div w) % 2 = 1}

Reserved(b) == BitsOf(b) \cap {8, 16} # {}

OperatorNames ==
    <<"And", "Or", "Xor", "Add", "Subtract", "Multiply", "Divide", "Modulo">>

\* the number the bits 0x01, 0x02 and 0x04 of b spell
LowThree(b) ==
    (IF 1 \in BitsOf(b) THEN 1 ELSE 0) + (IF 2 \in BitsOf(b) THEN 2 ELSE 0)
      + (IF 4 \in BitsOf(b) THEN 4 ELSE 0)

ExpectedOperation(b) ==
    [op |-> OperatorNames[LowThree(b) + 1],
     flags |-> [signed |-> 32 \in BitsOf(b),
                inverse |-> 64 \in BitsOf(b),
                indirect |-> 128 \in BitsOf(b)]]

C11_ReservedBits ==
    /\ o_out # NoResult =>
         /\ o_out.tag # "Panic"
         /\ IF Reserved(o_in.byte)
            THEN /\ o_out.tag = "Err"
                 /\ o_out.err.kind = "InvalidIndirectionOperationBitSet"
            ELSE /\ o_out.tag = "Ok"
                 /\ o_out.val = ExpectedOperation(o_in.byte)
    /\ (o_in # NoResult /\ m_out # NoResult) =>
         IF Reserved(o_in.byte)
         THEN /\ m_out.tag = "Err"
              /\ m_out.err.kind = "InvalidIndirectionOperationBitSet"
         ELSE /\ m_out.tag = "Ok"
              /\ o_in.at = 8 =>
                   m_out.val.indirection_operation
                     = ExpectedOperation(o_in.byte)
              /\ o_in.at = 9 =>
                   m_out.val.mask_operation = ExpectedOperation(o_in.byte)

\* 0xE7 decodes to Modulo with the three flags set, and 0xF7 (0xE7 with bit
\* 0x10 more) was rejected
C11_Witness ==
    /\ o_in # NoResult /\ o_in.byte = 231 /\ o_in.at = 9
    /\ o_out # NoResult /\ o_out.tag = "Ok" /\ o_out.val.op = "Modulo"
    /\ o_out.val.flags.signed /\ o_out.val.flags.inverse
    /\ o_out.val.flags.indirect
    /\ m_out # NoResult /\ m_out.tag = "Ok"
    /\ m_out.val.mask_operation = o_out.val
    /\ IndirectionOperation_try_from(247).tag = "Err"

(***************************************************************************)
(* C12: for every window of 64, 80, 8 or 120 bytes, bytes_to_string        *)
(* returns the text of the prefix that ends just before the first zero     *)
(* byte, or of the whole window when it holds no zero byte; it fails with  *)
(* InvalidUtf8 exactly when that prefix is not well-formed UTF-8; the      *)
(* bytes after the first zero byte change neither the result nor the       *)
(* error ("abc" followed by zeros decodes to exactly "abc").  The four     *)
(* text fields of a record go through the same decoder.                    *)
(***************************************************************************)
\* the prefix of w before its first zero byte, all of w when it has none
TextOf(w) ==
    LET n == CHOOSE n \in 0..Len(w) :
                 /\ \A i \in 1..n : w[i] # 0
                 /\ n = Len(w) \/ w[n + 1] = 0
    IN  [i \in 1..n |-> w[i]]

\* the well-formed UTF-8 byte sequences (Unicode, table 3-7): the range of
\* the first byte, the range of the second, and the length; every later
\* byte is in 0x80..0xBF
WellFormedRows ==
    {<<0, 127, 0, 0, 1>>, <<194, 223, 128, 191, 2>>,
     <<224, 224, 160, 191, 3>>, <<225, 236, 128, 191, 3>>,
     <<237, 237, 128, 159, 3>>, <<238, 239, 128, 191, 3>>,
     <<240, 240, 144, 191, 4>>, <<241, 243, 128, 191, 4>>,
     <<244, 244, 128, 143, 4>>}

\* a well-formed sequence of n bytes starts at s[i]
WellFormedAt(s, i, n) ==
    /\ i >= 1 /\ i + n - 1 <= Len(s)
    /\ \E r \in WellFormedRows :
         /\ r[5] = n
         /\ s[i] >= r[1] /\ s[i] <= r[2]
         /\ n >= 2 => (s[i + 1] >= r[3] /\ s[i + 1] <= r[4])
         /\ \A k \in 2..(n - 1) : s[i + k] >= 128 /\ s[i + k] <= 191

\* s is well-formed UTF-8: every byte outside 0x80..0xBF starts a
\* well-formed sequence and every byte inside lies in one
IsUtf8(s) ==
    \A j \in 1..Len(s) :
       IF s[j] >= 128 /\ s[j] <= 191
       THEN \E d \in 1..3 : \E n \in (d + 1)..4 : WellFormedAt(s, j - d, n)
       ELSE \E n \in 1..4 : WellFormedAt(s, j, n)

C12_TextDecoding ==
    /\ s_in # NoResult =>
         Len(s_in.window) = TextFields[s_in.field]
    /\ s_out # NoResult =>
         /\ IF IsUtf8(TextOf(s_in.window))
            THEN s_out.tag = "Ok" /\ s_out.val = TextOf(s_in.window)
            ELSE s_out.tag = "Err" /\ s_out.err.kind = "InvalidUtf8"
         /\ s_out = bytes_to_string(Pad(TextOf(s_in.window),
                                       Len(s_in.window)))
    /\ (s_in # NoResult /\ m_out # NoResult) =>
         IF IsUtf8(TextOf(s_in.window))
         THEN /\ m_out.tag = "Ok"
              /\ m_out.val[s_in.field] = TextOf(s_in.window)
         ELSE m_out.tag = "Err" /\ m_out.err.kind = "InvalidUtf8"

\* "abc", a zero byte and then bytes 0xFF to the end of the extension
\* window decoded to "abc", as "abc" followed by zeros does
C12_Witness ==
    /\ s_in # NoResult /\ s_in.field = "ext"
    /\ s_in.window = <<97, 98, 99, 0>> \o [i \in 1..116 |-> 255]
    /\ s_out # NoResult /\ s_out.tag = "Ok" /\ s_out.val = <<97, 98, 99>>
    /\ m_out # NoResult /\ m_out.tag = "Ok"
    /\ m_out.val.ext = <<97, 98, 99>>
    /\ bytes_to_string(Pad(<<97, 98, 99>>, 120)) = s_out

(***************************************************************************)
(* C13: for every 432-byte slice in which several fields are invalid,      *)
(* Magic::from_bytes returns the error of the invalid field of lowest      *)
(* offset, in the order relation (byte 4), value type (6), indirection     *)
(* type (7), indirection operation (8), mask operation (9), conditional    *)
(* type (10), factor operation (11), value payload (32..160),              *)
(* description, MIME type, creator code, extension list; the error of that *)
(* field's decoder is what is returned, and a record is returned only if   *)
(* every field decodes.                                                    *)
(***************************************************************************)
\* what the decoder of each field gives on its bytes of the slice b, in
\* the order of the claim; an error of the value-type decoder comes inside
\* MagicError::Value
FieldResults(b) ==
    LET vt == ValueType_try_from(b[7])
        it == ValueType_try_from(b[8])
        InValue(r) == IF r.tag = "Err" THEN Err("Value", r.err, 0) ELSE r
    IN  <<Relation_try_from(b[5]),
          InValue(vt),
          InValue(it),
          IndirectionOperation_try_from(b[9]),
          IndirectionOperation_try_from(b[10]),
          ConditionalType_try_from(b[11]),
          FactorOperation_try_from(b[12]),
          InValue(Value_new(IF vt.tag = "Ok" THEN vt.val ELSE "Invalid",
                            b[6], SubSeq(b, 33, 160))),
          bytes_to_string(SubSeq(b, 161, 224)),
          bytes_to_string(SubSeq(b, 225, 304)),
          bytes_to_string(SubSeq(b, 305, 312)),
          bytes_to_string(SubSeq(b, 313, 432))>>

\* the fields of b that do not decode, by their place in the order
InvalidFields(b) == {i \in 1..12 : FieldResults(b)[i].tag # "Ok"}

C13_ErrorPrecedence ==
    (m_in # NoResult /\ m_out # NoResult /\ Len(m_in.slice) = 432) =>
        LET invalid == InvalidFields(m_in.slice)
            first == CHOOSE i \in invalid : \A j \in invalid : i <= j
        IN  /\ invalid # {} =>
                 /\ m_out.tag = "Err"
                 /\ FieldResults(m_in.slice)[first].tag = "Err"
                 /\ m_out.err = FieldResults(m_in.slice)[first].err
            /\ m_out.tag = "Ok" => invalid = {}

====
